---- MODULE Spec2Model ----
(***************************************************************************)
(* Model of the game server in src/server/server_main.py: the Player       *)
(* protocol state machine, the PlayerList roster, the GameServer main loop *)
(* with its synchronisation points, and the CLI thread that shares the     *)
(* GameState with it.                                                      *)
(***************************************************************************)
EXTENDS Integers, Sequences, FiniteSets, TLC

VARIABLES
    players,        \* PlayerList.players: the Player objects, in join order
    sockets,        \* PlayerList.sockets: keys of the socket -> Player lookup
    have_master,    \* PlayerList.have_master
    seq_number,     \* PlayerList.seq_number
    game_state,     \* GameState.state
    card_set,       \* GameState.card_set
    cards,          \* GameServer.cards: the deck
    current_player, \* GameServer.current_player (a player number, or NoPlayer)
    session_id,     \* GameServer.session_id
    res_active,     \* ResourceServer.active
    pc,             \* position of the server thread in GameServer.main
    rflows,         \* flows[0] of select: sockets still to be read this iteration
    cli,            \* position of the CLI thread and its argument
    env,            \* what the environment may still do: connections, lines
                    \* sent by clients, transport failures, console commands
    last,           \* what the last step of the server thread did (history)
    hist            \* the values next_player returned so far (history)

vars == <<players, sockets, have_master, seq_number, game_state, card_set, cards,
          current_player, session_id, res_active, pc, rflows, cli, env, last,
          hist>>

(***************************************************************************)
(* Bounds of the model.                                                    *)
(***************************************************************************)
MaxConns == 2       \* Spec: connections that arrive
MaxMsgs == 2        \* Spec: lines the clients send
MaxFails == 1       \* Spec: reads or writes of a socket that fail
MaxCmds == 1        \* Spec: commands typed at the console
MaxSession == 1     \* sessions that may follow the first one
MaxReady == 2       \* sockets select reports readable in one iteration
MaxBacklog == 0     \* queued messages a client leaves unread when it writes
SmallSet == 3       \* cards of the configured card set "s"
MaxRoster == 4      \* SpecNext: length of the player list
ScorePlayers == 4   \* SpecScore: players at the table
GamePlayers == 2    \* SpecGame: players at the table
GameMsgs == 6       \* SpecGame: lines the clients send
GameFails == 0      \* SpecGame: reads or writes of a socket that fail
AdmitConns == 8     \* SpecAdmit: connections that arrive
AdmitMsgs == 2      \* SpecAdmit: lines the clients send
RecPlayers == 3     \* SpecRecover: players at the table
RecMsgs == 2        \* SpecRecover: lines the clients send
RecFails == 1       \* SpecRecover: reads or writes of a socket that fail
TurnRounds == 3     \* SpecTurn: rounds played before the one that ends
LiveConns == 1      \* SpecLive: connections that arrive
LiveMsgs == 1       \* SpecLive: lines the clients send
LiveCmds == 2       \* SpecLive: commands typed at the console
FailPlayers == 3    \* SpecFailed: players at the table
FailMsgs == 1       \* SpecFailed: lines the clients send
CardCmds == 1       \* SpecCards: commands typed at the console
RoundPlayers == 2   \* SpecRound: players at the table
RoundMsgs == 5      \* SpecRound: lines the clients send

(***************************************************************************)
(* Program constants.                                                      *)
(***************************************************************************)
MaxPlayers == 7         \* accept_connection: len(self.players) < 7
HandSize == 6           \* begin_game: player.cards = self.cards[:6]
DefaultCardNum == 50    \* begin_game: card_num = 50
NoCard == -2            \* Player.current_card = None
LeaderVote == -1        \* handle_message: self.selected_card = -1
NoPlayer == -1          \* GameServer.current_player = None
Listen == -3            \* GameServer.listening_socket among the flows

(***************************************************************************)
(* Text conversions of the wire protocol.  A received line is the sequence *)
(* of its whitespace-separated tokens (str.split); a token is a string.    *)
(***************************************************************************)
Digits == <<"0", "1", "2", "3", "4", "5", "6", "7", "8", "9">>

\* str(n) for 0 <= n < 100
Str(n) == IF n < 10 THEN Digits[n + 1]
          ELSE Digits[(n \div 10) + 1] \o Digits[(n % 10) + 1]

NumTokens == {Str(n) : n \in 0..(DefaultCardNum - 1)}

\* tokens of numeric characters that are no decimal digits, such as the
\* superscript two (written "sup2" here): isnumeric() holds and int() raises
\* ValueError
NumericOnly == {"sup2"}

\* str.isnumeric() on the tokens of the model
isnumeric(tok) == tok \in NumTokens \cup NumericOnly

\* int(tok), for a token of decimal digits
int(tok) == CHOOSE n \in 0..(DefaultCardNum - 1) : Str(n) = tok

(***************************************************************************)
(* Messages queued for a client.  `cmd` is the keyword, `nums` and `strs`  *)
(* are its integer and string fields and `rows` its ;-separated groups.    *)
(***************************************************************************)
Msg(cmd, nums, strs, rows) ==
    [cmd |-> cmd, nums |-> nums, strs |-> strs, rows |-> rows]

(***************************************************************************)
(* Sequence helpers.                                                       *)
(***************************************************************************)
Range(s) == {s[i] : i \in 1..Len(s)}

\* s[:n] of Python: a negative n counts from the end
Take(s, n) ==
    SubSeq(s, 1, IF n < 0 THEN (IF Len(s) + n < 0 THEN 0 ELSE Len(s) + n)
                 ELSE IF n < Len(s) THEN n ELSE Len(s))

\* s[n:] of Python, for n >= 0
Drop(s, n) == SubSeq(s, (IF n < Len(s) THEN n ELSE Len(s)) + 1, Len(s))

\* a Python list is kept as an explicit tuple: the elements f[1] .. f[n]
Tuple(f) == SubSeq(f, 1, Len(f))

Reverse(s) == Tuple([i \in 1..Len(s) |-> s[Len(s) + 1 - i]])

Rotate(s, k) == Tuple([i \in 1..Len(s) |-> s[((i - 1 + k) % Len(s)) + 1]])

\* list.remove(x) after the search of lines 893-896: the first occurrence
RemoveFirst(s, x) ==
    IF \E i \in 1..Len(s) : s[i] = x
    THEN LET k == CHOOSE i \in 1..Len(s) :
                      s[i] = x /\ \A j \in 1..(i - 1) : s[j] # x
         IN SubSeq(s, 1, k - 1) \o SubSeq(s, k + 1, Len(s))
    ELSE s

\* the orders random.shuffle may leave a list in (a bounded family of them:
\* the list as it is, rotated by one, and reversed)
Shuffles(s) ==
    IF Len(s) <= 1 THEN {s} ELSE {s, Rotate(s, 1), Reverse(s)}

(***************************************************************************)
(* Player                                                                  *)
(***************************************************************************)
States == {"VER_CHECK", "VER_WAIT", "START_WAIT", "BEGIN_SYNC", "READY_WAIT",
           "TURN_SYNC", "WAIT_ASSOC", "WAIT_SELF_CARD", "SELF_SYNC",
           "WAIT_VOTE", "VOTE_SYNC", "WAIT_NEXT_TURN", "SYNC_NEXT_TURN"}

SyncStates == {"BEGIN_SYNC", "TURN_SYNC", "SELF_SYNC", "VOTE_SYNC",
               "SYNC_NEXT_TURN"}

\* Player.__init__
NewPlayer(status, number) ==
    [number |-> number, status |-> status, state |-> "VER_CHECK",
     valid |-> TRUE, conn |-> TRUE, name |-> "Player", score |-> 0,
     get_broadcast |-> FALSE, cards |-> <<>>, current_card |-> NoCard,
     selected_card |-> NoCard, buffer |-> <<>>, has_turn |-> FALSE]

\* Player.verify
verify(p) == p.valid /\ p.conn

\* Player.send_message
send_message(p, data) == [p EXCEPT !.buffer = Append(@, data)]

\* Player.has_buffer: kept equal to len(buffer) > 0 by every writer
has_buffer(p) == p.buffer # <<>>

\* Player.stop
PlayerStop(p) == [p EXCEPT !.valid = FALSE, !.conn = FALSE]

(***************************************************************************)
(* PlayerList                                                              *)
(***************************************************************************)
\* PlayerList.__iter__: the positions of the valid players, in join order
ValidIdx(ps) == {i \in 1..Len(ps) : ps[i].valid}

\* PlayerList.__len__
len(ps) == Cardinality(ValidIdx(ps))

\* tuple(iter(self)): the valid players as a sequence
ValidSeq(ps) == SelectSeq(ps, LAMBDA p : p.valid)

\* position in the list of the player with this number, 0 when absent
IndexOf(ps, num) ==
    IF \E i \in 1..Len(ps) : ps[i].number = num
    THEN CHOOSE i \in 1..Len(ps) : ps[i].number = num
    ELSE 0

\* the "#PLAYER_LIST" message of broadcast
PlayerListMsg(ps) ==
    LET elig == SelectSeq(ps, LAMBDA p : p.valid /\ p.get_broadcast)
    IN Msg("PLAYER_LIST", Tuple([i \in 1..Len(elig) |-> elig[i].number]),
           Tuple([i \in 1..Len(elig) |-> elig[i].name]), <<>>)

\* the "#SELF" message of broadcast
SelfMsg(p) == Msg("PLAYER", <<p.number>>, <<>>, <<>>)

\* broadcast to every player in the list, valid or not
broadcast_all(ps, data) ==
    Tuple([i \in 1..Len(ps) |->
        IF ps[i].get_broadcast THEN send_message(ps[i], data) ELSE ps[i]])

\* PlayerList.broadcast, for a message already put together
broadcast(ps, data) ==
    Tuple([i \in 1..Len(ps) |->
        IF ps[i].valid /\ ps[i].get_broadcast
        THEN send_message(ps[i], data) ELSE ps[i]])

\* the loop without the test of `valid`
ProbeNoSkip(ps, p_idx, iteration) ==
    IF iteration < Len(ps) * 2
    THEN LET idx == IF p_idx + 1 >= Len(ps) THEN 0 ELSE p_idx + 1
         IN ps[idx + 1].number
    ELSE NoPlayer

\* the loop of PlayerList.next_player: probe the list circularly from p_idx
RECURSIVE Probe(_, _, _)
Probe(ps, p_idx, iteration) ==
    IF iteration < Len(ps) * 2
    THEN LET idx == IF p_idx + 1 >= Len(ps) THEN 0 ELSE p_idx + 1
         IN IF ps[idx + 1].valid THEN ps[idx + 1].number
            ELSE Probe(ps, idx, iteration + 1)
    ELSE NoPlayer

\* PlayerList.next_player: p_idx is the (0-based) place of `player`, 0 when
\* the player is not in the list
next_player(ps, player) ==
    Probe(ps, IF IndexOf(ps, player) = 0 THEN 0 ELSE IndexOf(ps, player) - 1, 0)

\* add_player taking the role from the valid players of the list instead of
\* from the flag
add_player_by_roster(ps, master, seq) ==
    Append(ps, NewPlayer(IF \E i \in ValidIdx(ps) : ps[i].status = "MASTER"
                         THEN "PLAYER" ELSE "MASTER", seq))

\* PlayerList.add_player
add_player(ps, master, seq) ==
    Append(ps, NewPlayer(IF master THEN "PLAYER" ELSE "MASTER", seq))

(***************************************************************************)
(* Player.handle_message: the player at position i of the list handles the *)
(* received line `res` (already split).  The result holds the new list and *)
(* the new GameState fields.                                               *)
(***************************************************************************)
Out(ps, gs, cs) == [players |-> ps, state |-> gs, card_set |-> cs]

\* self.valid = False
Invalidate(ps, i) == [ps EXCEPT ![i].valid = FALSE]

\* for player in self.plist: player.state = st
SetAllStates(ps, st) ==
    Tuple([j \in 1..Len(ps) |-> IF ps[j].valid THEN [ps[j] EXCEPT !.state = st]
                          ELSE ps[j]])

\* VER_WAIT with the digest broadcast before the sender is named and made
\* eligible
MsgVerWaitLate(ps, i, res) ==
    IF Len(res) # 2 \/ res[1] # "OK"
    THEN Invalidate(ps, i)
    ELSE LET sent == broadcast(ps, PlayerListMsg(ps))
         IN [sent EXCEPT ![i].name = res[2],
                         ![i].get_broadcast = TRUE,
                         ![i].state = "START_WAIT"]

\* lines 274-282
MsgVerWait(ps, i, res) ==
    IF Len(res) # 2 \/ res[1] # "OK"
    THEN Invalidate(ps, i)
    ELSE LET named == [ps EXCEPT ![i].name = res[2],
                                 ![i].get_broadcast = TRUE]
             sent == broadcast(named, PlayerListMsg(named))
         IN [sent EXCEPT ![i].state = "START_WAIT"]

\* WAIT_ASSOC with the malformed line handled as in the other states: the
\* sender is invalidated and nothing else
MsgWaitAssocNoRewind(ps, i, res) ==
    IF ~ps[i].has_turn
    THEN Invalidate(ps, i)
    ELSE IF Len(res) < 3 \/ res[1] # "TURN" \/ ~isnumeric(res[2])
    THEN Invalidate(ps, i)
    ELSE LET played == [ps EXCEPT ![i].current_card = int(res[2]),
                                  ![i].selected_card = LeaderVote]
         IN broadcast(SetAllStates(played, "WAIT_SELF_CARD"),
                      Msg("ASSOC", <<>>, SubSeq(res, 3, Len(res)), <<>>))

\* lines 301-316
MsgWaitAssoc(ps, i, res) ==
    IF ~ps[i].has_turn
    THEN Invalidate(ps, i)
    ELSE IF Len(res) < 3 \/ res[1] # "TURN" \/ ~isnumeric(res[2])
    THEN SetAllStates(Invalidate(ps, i), "TURN_SYNC")
    ELSE LET played == [ps EXCEPT ![i].current_card = int(res[2]),
                                  ![i].selected_card = LeaderVote]
         IN broadcast(SetAllStates(played, "WAIT_SELF_CARD"),
                      Msg("ASSOC", <<>>, SubSeq(res, 3, Len(res)), <<>>))

\* lines 317-328
MsgWaitSelfCard(ps, i, res) ==
    IF ~ps[i].has_turn
    THEN IF Len(res) < 2 \/ res[1] # "CARD" \/ ~isnumeric(res[2])
         THEN Invalidate(ps, i)
         ELSE LET played == [ps EXCEPT ![i].current_card = int(res[2])]
                  sent == broadcast(played, SelfMsg(played[i]))
              IN [sent EXCEPT ![i].state = "SELF_SYNC"]
    ELSE Invalidate(ps, i)

\* lines 329-339
MsgWaitVote(ps, i, res) ==
    IF ~ps[i].has_turn
    THEN IF Len(res) < 2 \/ res[1] # "CARD" \/ ~isnumeric(res[2])
         THEN Invalidate(ps, i)
         ELSE [ps EXCEPT ![i].selected_card = int(res[2]),
                         ![i].state = "VOTE_SYNC"]
    ELSE Invalidate(ps, i)

\* START_WAIT without the test of the role
MsgStartWaitAnyone(ps, i, res, gs, cs) ==
    IF Len(res) # 2 \/ res[1] # "START_GAME"
    THEN Out(Invalidate(ps, i), gs, cs)
    ELSE Out([ps EXCEPT ![i].state = "BEGIN_SYNC"], "GAME", res[2])

\* lines 283-294
MsgStartWait(ps, i, res, gs, cs) ==
    IF ps[i].status # "MASTER" THEN Out(Invalidate(ps, i), gs, cs)
    ELSE IF Len(res) # 2 \/ res[1] # "START_GAME"
    THEN Out(Invalidate(ps, i), gs, cs)
    ELSE Out([ps EXCEPT ![i].state = "BEGIN_SYNC"], "GAME", res[2])

\* lines 312, 323 and 335: the call of int() raises ValueError, before any
\* field is assigned
Raises(ps, i, res) ==
    LET st == ps[i].state IN
    \/ /\ st = "WAIT_ASSOC" /\ ps[i].has_turn
       /\ Len(res) >= 3 /\ res[1] = "TURN" /\ res[2] \in NumericOnly
    \/ /\ st \in {"WAIT_SELF_CARD", "WAIT_VOTE"} /\ ~ps[i].has_turn
       /\ Len(res) >= 2 /\ res[1] = "CARD" /\ res[2] \in NumericOnly

\* a line received in a state that expects none, dropped without a trace
MsgOtherIgnored(ps, i, res) == ps

\* lines 346-348: a line received in any other state
MsgOther(ps, i, res) == Invalidate(ps, i)

handle_message(ps, i, res, gs, cs) ==
    LET st == ps[i].state IN
    IF st = "VER_WAIT" THEN Out(MsgVerWait(ps, i, res), gs, cs)
    ELSE IF st = "START_WAIT" THEN MsgStartWait(ps, i, res, gs, cs)
    ELSE IF st = "READY_WAIT" THEN
        IF Len(res) # 1 \/ res[1] # "READY"
        THEN Out(Invalidate(ps, i), gs, cs)
        ELSE Out([ps EXCEPT ![i].state = "TURN_SYNC"], gs, cs)
    ELSE IF st = "WAIT_ASSOC" THEN Out(MsgWaitAssoc(ps, i, res), gs, cs)
    ELSE IF st = "WAIT_SELF_CARD" THEN Out(MsgWaitSelfCard(ps, i, res), gs, cs)
    ELSE IF st = "WAIT_VOTE" THEN Out(MsgWaitVote(ps, i, res), gs, cs)
    ELSE IF st = "WAIT_NEXT_TURN" THEN
        IF Len(res) # 1 \/ res[1] # "NEXT_TURN"
        THEN Out(Invalidate(ps, i), gs, cs)
        ELSE Out([ps EXCEPT ![i].state = "SYNC_NEXT_TURN"], gs, cs)
    ELSE Out(MsgOther(ps, i, res), gs, cs)

(***************************************************************************)
(* Player.handle_state for the player at position i: five `if`s in a row.  *)
(***************************************************************************)
VersionMsg(p) == Msg("VERSION", <<p.number>>, <<p.status, "res", "link">>, <<>>)

StateVerCheck(ps, i) ==
    IF ps[i].state = "VER_CHECK"
    THEN [ps EXCEPT ![i] = [send_message(@, VersionMsg(@))
                                EXCEPT !.state = "VER_WAIT"]]
    ELSE ps

StateStartWait(ps, i, gs) ==
    IF ps[i].state = "START_WAIT" /\ gs = "GAME"
    THEN [ps EXCEPT ![i].state = "BEGIN_SYNC"] ELSE ps

StateLate(ps, i, gs) ==
    IF ps[i].state = "VER_WAIT" /\ gs = "GAME"
    THEN Invalidate(ps, i) ELSE ps

StateSelfCard(ps, i) ==
    IF ps[i].state = "WAIT_SELF_CARD" /\ ps[i].has_turn
    THEN LET moved == [ps EXCEPT ![i].state = "SELF_SYNC"]
         IN broadcast(moved, SelfMsg(moved[i]))
    ELSE ps

\* handle_state that leaves the storyteller in WAIT_VOTE
StateVoteOff(ps, i) == ps

StateVote(ps, i) ==
    IF ps[i].state = "WAIT_VOTE" /\ ps[i].has_turn
    THEN [ps EXCEPT ![i].state = "VOTE_SYNC"] ELSE ps

handle_state(ps, i, gs) ==
    StateVote(StateSelfCard(StateLate(StateStartWait(StateVerCheck(ps, i),
                                                     i, gs), i, gs), i), i)

(***************************************************************************)
(* GameServer: dealing, scoring and the synchronisation points.            *)
(***************************************************************************)
\* Resources.configuration (resources/sets.json): cards of each card set
Configuration == [c \in {"s"} |-> SmallSet]

\* begin_game, lines 792-797: the configured count, 50 without an entry
CardNum(cs) ==
    IF cs \in DOMAIN Configuration THEN Configuration[cs] ELSE DefaultCardNum

\* begin_game, lines 802-807: the deck is cut according to the roster size
CutDeck(deck, n) ==
    IF n = 4 THEN Take(deck, Len(deck) - 2)
    ELSE IF n = 5 THEN Take(deck, Len(deck) - 23)
    ELSE IF n = 6 THEN Take(deck, Len(deck) - 26)
    ELSE deck

\* begin_game, lines 809-811: the valid players from position i on take their
\* hands from the front of the deck
RECURSIVE Deal(_, _, _)
Deal(ps, i, deck) ==
    IF i > Len(ps) THEN [players |-> ps, cards |-> deck]
    ELSE IF ps[i].valid
    THEN Deal([ps EXCEPT ![i].cards = Take(deck, HandSize)], i + 1,
              Drop(deck, HandSize))
    ELSE Deal(ps, i + 1, deck)

\* list(range(card_num))
Identity(n) == Tuple([i \in 1..n |-> i - 1])

\* begin_game, for the order `shuffled` that shuffle left the cards in
begin_game(ps, shuffled) == Deal(ps, 1, CutDeck(shuffled, len(ps)))

\* calculate_result, lines 816-821: result[i] for the player at position i
Fooled(ps, i, cur) ==
    Cardinality({j \in ValidIdx(ps) :
                    /\ ps[j].number # cur
                    /\ ps[i].current_card = ps[j].selected_card})

\* the gain with the votes drawn added in the all-correct case too
GainWithBonus(ps, i, cur) ==
    LET c == IndexOf(ps, cur) IN
    (IF Fooled(ps, c, cur) = len(ps) - 1
     THEN IF i # c THEN 3 ELSE 0
     ELSE IF Fooled(ps, c, cur) # 0
          THEN IF i = c THEN 3
               ELSE IF ps[i].selected_card = ps[c].current_card THEN 3 ELSE 0
          ELSE 0)
    + Fooled(ps, i, cur)

\* the gain without the test that some vote is correct
GainNoZeroTest(ps, i, cur) ==
    LET c == IndexOf(ps, cur) IN
    IF Fooled(ps, c, cur) = len(ps) - 1
    THEN IF i # c THEN 3 ELSE 0
    ELSE (IF i = c THEN 3
          ELSE IF ps[i].selected_card = ps[c].current_card THEN 3 ELSE 0)
         + Fooled(ps, i, cur)

\* calculate_result, lines 822-834: what the player at position i gains
Gain(ps, i, cur) ==
    LET c == IndexOf(ps, cur) IN
    IF Fooled(ps, c, cur) = len(ps) - 1
    THEN IF i # c THEN 3 ELSE 0
    ELSE (IF Fooled(ps, c, cur) # 0
          THEN IF i = c THEN 3
               ELSE IF ps[i].selected_card = ps[c].current_card THEN 3 ELSE 0
          ELSE 0)
         + Fooled(ps, i, cur)

calculate_result(ps, cur) ==
    Tuple([i \in 1..Len(ps) |->
        IF ps[i].valid THEN [ps[i] EXCEPT !.score = @ + Gain(ps, i, cur)]
        ELSE ps[i]])

\* self.current_player.verify(), for a Player that may have left the list
\* (PlayerList.check has then called its stop(), which clears valid)
VerifyCurrent(ps, cur) ==
    IndexOf(ps, cur) # 0 /\ verify(ps[IndexOf(ps, cur)])

\* global_operations without the test of the storyteller
RecoveryOff(ps, cur) == ps

\* global_operations, lines 838-841
Recovery(ps, cur) ==
    IF cur # NoPlayer /\ ~VerifyCurrent(ps, cur)
    THEN SetAllStates(ps, "TURN_SYNC") ELSE ps

\* get_sync_state returning the state of the first valid player, whatever
\* the state of the others
get_sync_state_first(ps) ==
    IF ValidIdx(ps) = {} THEN "None" ELSE ValidSeq(ps)[1].state

\* get_sync_state: the common state of the valid players, "None" otherwise
get_sync_state(ps) ==
    IF ValidIdx(ps) = {} THEN "None"
    ELSE LET st == ValidSeq(ps)[1].state
         IN IF \A i \in ValidIdx(ps) : ps[i].state = st THEN st ELSE "None"

\* the result of global_operations
Glob(ps, cur, gs, deck) ==
    [players |-> ps, current_player |-> cur, state |-> gs, cards |-> deck]

\* lines 846-848: the number;name list of the BEGIN message
Eligible(ps) == SelectSeq(ps, LAMBDA p : p.valid /\ p.get_broadcast)

BeginMsg(ps, p, cs) ==
    Msg("BEGIN", p.cards,
        <<cs>> \o Tuple([i \in 1..Len(Eligible(ps)) |-> Eligible(ps)[i].name]),
        <<Tuple([i \in 1..Len(Eligible(ps)) |-> Eligible(ps)[i].number])>>)

\* lines 849-854: every valid player is sent BEGIN and waits for READY
SendBegin(dp, cs) ==
    Tuple([i \in 1..Len(dp) |->
        IF dp[i].valid
        THEN send_message([dp[i] EXCEPT !.state = "READY_WAIT"],
                          BeginMsg(dp, dp[i], cs))
        ELSE dp[i]])

\* lines 849-857 on the table begin_game has dealt: the players as they are
\* after the BEGIN messages (one value, bound once), the storyteller drawn
BeginTurn(dealt, gs, cs, first) ==
    CHOOSE g \in {Glob(ready, next_player(ready, ready[first].number), gs,
                       dealt.cards) :
                  ready \in {SendBegin(dealt.players, cs)}} : TRUE

\* lines 843-860, with the outcomes of shuffle and of randrange
SyncBegin(ps, cur, gs, cs, deck, shuffled, first) ==
    IF len(ps) > 0
    THEN CHOOSE g \in {BeginTurn(dealt, gs, cs, first) :
                          dealt \in {begin_game(ps, shuffled)}} : TRUE
    ELSE Glob(ps, cur, "ERROR", deck)

\* lines 861-867
SyncTurn(ps, cur, gs, deck) ==
    LET nxt == next_player(ps, cur)
        turned == Tuple([i \in 1..Len(ps) |->
                     IF ps[i].valid
                     THEN [ps[i] EXCEPT !.has_turn = (ps[i].number = nxt),
                                        !.state = "WAIT_ASSOC"]
                     ELSE ps[i]])
    IN Glob(broadcast(turned, Msg("TURN", <<nxt>>, <<>>, <<>>)), nxt, gs, deck)

\* the cards on the table without the card of the storyteller
CardListNoTeller(ps) ==
    Tuple([i \in 1..Len(SelectSeq(ps, LAMBDA p : p.valid /\ ~p.has_turn)) |->
        SelectSeq(ps, LAMBDA p : p.valid /\ ~p.has_turn)[i].current_card])

\* lines 869-870: the cards on the table
CardList(ps) == Tuple([i \in 1..Len(ValidSeq(ps)) |-> ValidSeq(ps)[i].current_card])

\* lines 868-875, with the outcome of shuffle
SyncSelf(ps, cur, gs, deck, ballot) ==
    Glob(SetAllStates(broadcast(ps, Msg("VOTE", ballot, <<>>, <<>>)),
                      "WAIT_VOTE"), cur, gs, deck)

\* lines 878-888
StatusMsg(ps, cur) ==
    LET v == ValidSeq(ps) IN
    Msg("STATUS", <<ps[IndexOf(ps, cur)].current_card>>, <<>>,
        Tuple([i \in 1..Len(v) |->
            <<v[i].number, v[i].current_card, v[i].selected_card>>])
        \o Tuple([i \in 1..Len(v) |-> <<v[i].number, v[i].score>>]))

\* the scores are counted and the players stay in VOTE_SYNC
SyncVoteStay(ps, cur, gs, deck) ==
    LET scored == calculate_result(ps, cur)
    IN Glob(broadcast(scored, StatusMsg(scored, cur)), cur, gs, deck)

\* lines 876-890
SyncVote(ps, cur, gs, deck) ==
    LET scored == calculate_result(ps, cur)
    IN Glob(SetAllStates(broadcast(scored, StatusMsg(scored, cur)),
                         "WAIT_NEXT_TURN"), cur, gs, deck)

\* lines 892-896
DropPlayed(ps) ==
    Tuple([i \in 1..Len(ps) |->
        IF ps[i].valid
        THEN [ps[i] EXCEPT !.cards = RemoveFirst(@, ps[i].current_card)]
        ELSE ps[i]])

\* every player from position i on is given the top card, which stays on the
\* deck
DrawKeep(ps, i, deck) ==
    [players |-> Tuple([j \in 1..Len(ps) |->
                    IF j >= i /\ ps[j].valid
                    THEN [ps[j] EXCEPT !.cards = Append(@, Head(deck))]
                    ELSE ps[j]]),
     cards |-> deck]

\* lines 897-899: the valid players from position i on draw one card each
RECURSIVE Draw(_, _, _)
Draw(ps, i, deck) ==
    IF i > Len(ps) THEN [players |-> ps, cards |-> deck]
    ELSE IF ps[i].valid
    THEN Draw([ps EXCEPT ![i].cards = Append(@, Head(deck))], i + 1, Tail(deck))
    ELSE Draw(ps, i + 1, deck)

\* lines 891-908
SyncNext(ps, cur, gs, deck) ==
    LET dropped == DropPlayed(ps)
        drawn == IF Len(deck) >= len(ps) THEN Draw(dropped, 1, deck)
                 ELSE [players |-> dropped, cards |-> deck]
        dp == drawn.players
    IN IF Len(ValidSeq(dp)[1].cards) > 0
       THEN Glob(Tuple([i \in 1..Len(dp) |->
                    IF dp[i].valid
                    THEN send_message([dp[i] EXCEPT !.state = "TURN_SYNC"],
                                      Msg("CARDS", dp[i].cards, <<>>, <<>>))
                    ELSE dp[i]]),
                 cur, gs, drawn.cards)
       ELSE Glob(Tuple([i \in 1..Len(dp) |->
                    [broadcast(dp, Msg("END_GAME", <<>>, <<>>, <<>>))[i]
                        EXCEPT !.valid = FALSE]]),
                 cur, gs, drawn.cards)

\* global_operations after the check of the current player, for the
\* synchronisation state cond; `shuffled`, `first` and `ballot` are the
\* outcomes of shuffle and randrange
Barrier(cond, ps, cur, gs, cs, deck, shuffled, first, ballot) ==
    IF cond = "BEGIN_SYNC" THEN SyncBegin(ps, cur, gs, cs, deck, shuffled, first)
    ELSE IF cond = "TURN_SYNC" THEN SyncTurn(ps, cur, gs, deck)
    ELSE IF cond = "SELF_SYNC" THEN SyncSelf(ps, cur, gs, deck, ballot)
    ELSE IF cond = "VOTE_SYNC" THEN SyncVote(ps, cur, gs, deck)
    ELSE IF cond = "SYNC_NEXT_TURN" THEN SyncNext(ps, cur, gs, deck)
    ELSE Glob(ps, cur, gs, deck)

global_operations(ps, cur, gs, cs, deck, shuffled, first, ballot) ==
    Barrier(get_sync_state(Recovery(ps, cur)), Recovery(ps, cur), cur, gs, cs,
            deck, shuffled, first, ballot)

(***************************************************************************)
(* The server thread: GameServer.main.                                     *)
(***************************************************************************)
\* the card sets a client or the console may name: "s" has an entry in the
\* configuration, "x" has none
CardSets == {"s", "x"}

\* the cards the client of the player at position i may name: the first of
\* its hand, the cards on the table, and card 0 whoever holds it
CardChoices(ps, i) ==
    (Range(Take(ps[i].cards, 1))
     \cup {ps[j].current_card : j \in ValidIdx(ps)} \cup {0}) \ {NoCard}

\* the lines that client may send: every keyword of the protocol, well
\* formed and not, and the empty line
Inputs(ps, i) ==
    {<<"OK", "Alice">>, <<"READY">>, <<"NEXT_TURN">>, <<>>, <<"TURN", "x", "clue">>,
     <<"CARD", "0", "x">>, <<"CARD", "sup2">>}
    \cup {<<"START_GAME", c>> : c \in CardSets}
    \cup {<<"TURN", Str(c), "clue">> : c \in CardChoices(ps, i)}
    \cup {<<"CARD", Str(c)>> : c \in CardChoices(ps, i)}

\* the history of a step: what was done, and for a received line by whom
Did(op) == [op |-> op, who |-> NoPlayer, line |-> <<>>]

Budget(conns, msgs, fails, cmds) ==
    [conns |-> conns, msgs |-> msgs, fails |-> fails, cmds |-> cmds]

\* GameServer.__init__ and the first lines of GameServer.main
Constructed ==
    /\ players = <<>>
    /\ sockets = {}
    /\ have_master = FALSE
    /\ seq_number = 0
    /\ game_state = "PLAYER_CONN"
    /\ card_set = "0"
    /\ cards = <<>>
    /\ current_player = NoPlayer
    /\ session_id = 0
    /\ res_active = FALSE
    /\ pc = "while"
    /\ rflows = <<>>
    /\ cli = [pc |-> "idle", arg |-> ""]
    /\ last = Did("init")
    /\ hist = <<>>

Init ==
    /\ Constructed
    /\ env = Budget(MaxConns, MaxMsgs, MaxFails, MaxCmds)

\* line 699: while self.game_state.state != "SHUTDOWN"
While ==
    /\ pc = "while"
    /\ game_state # "SHUTDOWN" => session_id <= MaxSession
    /\ pc' = IF game_state # "SHUTDOWN" THEN "prepare" ELSE "done"
    /\ last' = Did("while")
    /\ UNCHANGED <<players, sockets, have_master, seq_number, game_state,
                   card_set, cards, current_player, session_id, res_active,
                   rflows, cli, env, hist>>

\* GameServer.prepare, lines 765-773
Prepare ==
    /\ pc = "prepare"
    /\ game_state' = "PLAYER_CONN"
    /\ players' = <<>>
    /\ sockets' = {}
    /\ have_master' = FALSE
    /\ seq_number' = 0
    /\ res_active' = FALSE
    /\ current_player' = NoPlayer
    /\ pc' = "work"
    /\ last' = Did("prepare")
    /\ UNCHANGED <<card_set, cards, session_id, rflows, cli, env, hist>>

\* check_resource_server, lines 910-918
ResourceActive(gs, active) ==
    IF gs = "PLAYER_CONN" /\ ~active THEN TRUE
    ELSE IF gs # "PLAYER_CONN" /\ active THEN FALSE
    ELSE active

\* the session goes on only while a valid player is in the list
SessionGoesOnSeated(gs, ps) == gs \in {"PLAYER_CONN", "GAME"} /\ len(ps) > 0

\* lines 705-716: whether the session goes on
SessionGoesOn(gs, ps) ==
    /\ gs \in {"PLAYER_CONN", "GAME"}
    /\ ~(len(ps) = 0 /\ gs # "PLAYER_CONN")

\* lines 703-716: the head of the session loop
Work ==
    /\ pc = "work"
    /\ res_active' = ResourceActive(game_state, res_active)
    /\ pc' = IF SessionGoesOn(game_state, players) THEN "select" ELSE "stop"
    /\ last' = Did("work")
    /\ UNCHANGED <<players, sockets, have_master, seq_number, game_state,
                   card_set, cards, current_player, session_id, rflows, cli,
                   env, hist>>

\* lines 718-719: rlist, in the order select reports it
RList(ps) ==
    Tuple([i \in 1..Len(ValidSeq(ps)) |-> ValidSeq(ps)[i].number]) \o <<Listen>>

\* lines 720-721: wlist
WList(ps) == {p.number : p \in {q \in Range(ps) : q.valid /\ has_buffer(q)}}

\* lines 727-729: one queued message of a write-ready player is sent; the
\* send to `broken` fails, which clears conn.status
PushBuffers(ps, broken) ==
    Tuple([i \in 1..Len(ps) |->
        IF ps[i].valid /\ has_buffer(ps[i])
        THEN [ps[i] EXCEPT !.buffer = Tail(@),
                           !.conn = (@ /\ ps[i].number # broken)]
        ELSE ps[i]])

\* lines 718-729: select, then the buffers of the write-ready players.  The
\* sockets with pending output are all ready for writing; those in `ready`
\* are ready for reading.
Select ==
    /\ pc = "select"
    /\ \E ready \in SUBSET Range(RList(players)),
          broken \in WList(players) \cup {NoPlayer} :
          /\ Cardinality(ready) <= MaxReady
          /\ Listen \in ready => env.conns > 0
          /\ Cardinality(ready \ {Listen}) <= env.msgs
          /\ \A q \in Range(players) :
                q.number \in ready => Len(q.buffer) <= MaxBacklog + 1
          /\ broken # NoPlayer => env.fails > 0
          /\ rflows' = SelectSeq(RList(players), LAMBDA f : f \in ready)
          /\ players' = PushBuffers(players, broken)
          /\ env' = [env EXCEPT !.fails = IF broken # NoPlayer THEN @ - 1 ELSE @]
    /\ pc' = "input"
    /\ last' = Did("select")
    /\ UNCHANGED <<sockets, have_master, seq_number, game_state, card_set,
                   cards, current_player, session_id, res_active, cli, hist>>

\* the admission test with <= for <
AdmitsUpTo(gs, ps) == gs = "PLAYER_CONN" /\ len(ps) <= MaxPlayers

\* accept_connection, lines 782-783
Admits(gs, ps) == gs = "PLAYER_CONN" /\ len(ps) < MaxPlayers

\* GameServer.accept_connection, lines 775-788
Accept ==
    /\ pc = "input"
    /\ rflows # <<>> /\ Head(rflows) = Listen
    /\ rflows' = Tail(rflows)
    /\ env' = [env EXCEPT !.conns = @ - 1]
    /\ IF Admits(game_state, players)
       THEN /\ players' = add_player(players, have_master, seq_number)
            /\ sockets' = sockets \cup {seq_number}
            /\ have_master' = TRUE
            /\ seq_number' = seq_number + 1
            /\ last' = Did("accept")
       ELSE /\ last' = Did("refuse")
            /\ UNCHANGED <<players, sockets, have_master, seq_number>>
    /\ UNCHANGED <<game_state, card_set, cards, current_player, session_id,
                   res_active, pc, cli, hist>>

\* line 736: self.players.sockets[flow].handle_message(), for the line `res`
\* that connection.get() returns; a failed read returns the empty line and
\* clears conn.status.  No caller catches the ValueError of int(): it ends
\* GameServer.main, between acquire (line 724) and release (line 746).
Receive ==
    /\ pc = "input"
    /\ rflows # <<>> /\ Head(rflows) # Listen
    /\ rflows' = Tail(rflows)
    /\ LET i == IndexOf(players, Head(rflows)) IN
       \E res \in Inputs(players, i), ok \in BOOLEAN :
          /\ ~ok => res = <<>> /\ env.fails > 0
          /\ LET got == [players EXCEPT ![i].conn = (@ /\ ok)]
                 out == handle_message(got, i, res, game_state, card_set)
             IN IF Raises(got, i, res)
                THEN /\ pc' = "raised"
                     /\ last' = [op |-> "raised", who |-> Head(rflows),
                                 line |-> res]
                     /\ UNCHANGED <<players, game_state, card_set>>
                ELSE /\ players' = out.players
                     /\ game_state' = out.state
                     /\ card_set' = out.card_set
                     /\ pc' = pc
                     /\ last' = [op |-> "message", who |-> Head(rflows),
                                 line |-> res]
          /\ env' = [env EXCEPT !.msgs = @ - 1,
                                !.fails = IF ok THEN @ ELSE @ - 1]
    /\ UNCHANGED <<sockets, have_master, seq_number, cards, current_player,
                   session_id, res_active, cli, hist>>

\* lines 739-740: handle_state of every valid player, in join order
RECURSIVE HandleStates(_, _, _)
HandleStates(ps, i, gs) ==
    IF i > Len(ps) THEN ps
    ELSE IF ps[i].valid THEN HandleStates(handle_state(ps, i, gs), i + 1, gs)
    ELSE HandleStates(ps, i + 1, gs)

PlayerEvents ==
    /\ pc = "input"
    /\ rflows = <<>>
    /\ players' = HandleStates(players, 1, game_state)
    /\ pc' = "global"
    /\ last' = Did("state")
    /\ UNCHANGED <<sockets, have_master, seq_number, game_state, card_set,
                   cards, current_player, session_id, res_active, rflows, cli,
                   env, hist>>

\* line 743: self.global_operations()
GlobalOperations ==
    /\ pc = "global"
    /\ LET mid == Recovery(players, current_player)
           cond == get_sync_state(mid)
       IN \E shuffled \in (IF cond = "BEGIN_SYNC"
                           THEN Shuffles(Identity(CardNum(card_set)))
                           ELSE {<<>>}),
             first \in (IF cond = "BEGIN_SYNC" THEN 1..Len(players) ELSE {1}),
             ballot \in (IF cond = "SELF_SYNC" THEN Shuffles(CardList(mid))
                         ELSE {<<>>}) :
            \E out \in {global_operations(players, current_player, game_state,
                                           card_set, cards, shuffled, first,
                                           ballot)} :
               /\ players' = out.players
               /\ current_player' = out.current_player
               /\ game_state' = out.state
               /\ cards' = out.cards
               /\ last' = Did(cond)
    /\ pc' = "check"
    /\ UNCHANGED <<sockets, have_master, seq_number, card_set, session_id,
                   res_active, rflows, cli, env, hist>>

\* PlayerList.check, lines 585-586: the first player that fails verify()
FirstDead(ps) ==
    IF \E i \in 1..Len(ps) : ~verify(ps[i])
    THEN CHOOSE i \in 1..Len(ps) :
            ~verify(ps[i]) /\ \A j \in 1..(i - 1) : verify(ps[j])
    ELSE 0

\* Player.push_buffer, lines 229-233: the messages sent, and the player after
push_buffer(p) == [sent |-> p.buffer, player |-> [p EXCEPT !.buffer = <<>>]]

\* PlayerList.check, lines 585-588: what is sent to the player that is
\* removed, and the player as it is closed
Removed(ps) ==
    LET flushed == push_buffer(ps[FirstDead(ps)])
    IN [sent |-> flushed.sent, player |-> PlayerStop(flushed.player)]

\* PlayerList.check, lines 583-596: the first player that fails verify() is
\* removed.  The result holds the list, the lookup and the GameState.
check(ps, socks, gs) ==
    LET d == FirstDead(ps) IN
    IF d = 0 THEN [players |-> ps, sockets |-> socks, state |-> gs]
    ELSE LET gs2 == IF ps[d].status = "MASTER" /\ gs = "PLAYER_CONN"
                    THEN "ERROR" ELSE gs
             rest == SubSeq(ps, 1, d - 1) \o SubSeq(ps, d + 1, Len(ps))
         IN [players |-> IF gs2 = "PLAYER_CONN"
                         THEN broadcast(rest, PlayerListMsg(rest)) ELSE rest,
             sockets |-> socks \ {ps[d].number},
             state |-> gs2]

\* PlayerList.stop, lines 619-623: what is sent to each player of the list,
\* and the player as it is closed
stop(ps) ==
    Tuple([i \in 1..Len(ps) |->
        [sent |-> push_buffer(ps[i]).sent,
         player |-> PlayerStop(push_buffer(ps[i]).player)]])

\* line 745: self.players.check()
Check ==
    /\ pc = "check"
    /\ LET out == check(players, sockets, game_state)
       IN /\ players' = out.players
          /\ sockets' = out.sockets
          /\ game_state' = out.state
          /\ last' = Did(IF FirstDead(players) = 0 THEN "check"
                          ELSE IF out.state # game_state THEN "master_lost"
                          ELSE "removed")
    /\ pc' = "work"
    /\ UNCHANGED <<have_master, seq_number, card_set, cards, current_player,
                   session_id, res_active, rflows, cli, env, hist>>

\* lines 748-750: PlayerList.stop, the session is closed
Stop ==
    /\ pc = "stop"
    /\ players' = <<>>
    /\ sockets' = {}
    /\ session_id' = session_id + 1
    /\ pc' = "while"
    /\ last' = Did("stop")
    /\ UNCHANGED <<have_master, seq_number, game_state, card_set, cards,
                   current_player, res_active, rflows, cli, env, hist>>

(***************************************************************************)
(* The CLI thread.  It reads and writes the GameState without the lock of  *)
(* the player list; only comm_end takes the lock, which the server thread  *)
(* holds from line 724 to line 746.                                        *)
(***************************************************************************)
Locked == pc \in {"input", "global", "check", "raised"}

\* comm_start, line 514: the state is read
CliStart ==
    /\ cli.pc = "idle" /\ env.cmds > 0
    /\ env' = [env EXCEPT !.cmds = @ - 1]
    /\ \E cs \in CardSets :
          cli' = IF game_state # "PLAYER_CONN" THEN cli
                 ELSE [pc |-> "start_card_set", arg |-> cs]
    /\ UNCHANGED <<players, sockets, have_master, seq_number, game_state,
                   card_set, cards, current_player, session_id, res_active,
                   pc, rflows, last, hist>>

\* comm_start, line 517
CliStartCardSet ==
    /\ cli.pc = "start_card_set"
    /\ card_set' = cli.arg
    /\ cli' = [cli EXCEPT !.pc = "start_state"]
    /\ UNCHANGED <<players, sockets, have_master, seq_number, game_state,
                   cards, current_player, session_id, res_active, pc, rflows,
                   env, last, hist>>

\* comm_start, line 518
CliStartState ==
    /\ cli.pc = "start_state"
    /\ game_state' = "GAME"
    /\ cli' = [cli EXCEPT !.pc = "idle"]
    /\ UNCHANGED <<players, sockets, have_master, seq_number, card_set, cards,
                   current_player, session_id, res_active, pc, rflows, env,
                   last, hist>>

\* comm_stop, lines 534-538
CliStop ==
    /\ cli.pc = "idle" /\ env.cmds > 0
    /\ env' = [env EXCEPT !.cmds = @ - 1]
    /\ game_state' = "SHUTDOWN"
    /\ cli' = [cli EXCEPT !.pc = "dead"]
    /\ UNCHANGED <<players, sockets, have_master, seq_number, card_set, cards,
                   current_player, session_id, res_active, pc, rflows, last, hist>>

\* comm_end, line 525: the state is read
CliEnd ==
    /\ cli.pc = "idle" /\ env.cmds > 0
    /\ env' = [env EXCEPT !.cmds = @ - 1]
    /\ cli' = IF game_state = "GAME" THEN [cli EXCEPT !.pc = "end_lock"]
              ELSE cli
    /\ UNCHANGED <<players, sockets, have_master, seq_number, game_state,
                   card_set, cards, current_player, session_id, res_active,
                   pc, rflows, last, hist>>

\* comm_end, lines 526-530, once the lock is free
CliEndCards ==
    /\ cli.pc = "end_lock"
    /\ ~Locked
    /\ players' = Tuple([i \in 1..Len(players) |->
                     IF players[i].valid
                     THEN [players[i] EXCEPT !.cards = <<>>] ELSE players[i]])
    /\ cards' = <<>>
    /\ cli' = [cli EXCEPT !.pc = "idle"]
    /\ UNCHANGED <<sockets, have_master, seq_number, game_state, card_set,
                   current_player, session_id, res_active, pc, rflows, env,
                   last, hist>>

\* the main loop with the sockets of the players it has
Session ==
    \/ While \/ Prepare \/ Work \/ Select \/ Receive
    \/ PlayerEvents \/ GlobalOperations \/ Check \/ Stop

Server == Session \/ Accept

Console ==
    \/ CliStart \/ CliStartCardSet \/ CliStartState \/ CliStop
    \/ CliEnd \/ CliEndCards

Next == Server \/ Console

Spec == Init /\ [][Next]_vars

(***************************************************************************)
(* States of a running session, built with the operators above: n clients  *)
(* have connected and sent "OK Alice", the MASTER has sent START_GAME, the  *)
(* cards are dealt, every client has answered READY, and so on.            *)
(***************************************************************************)
\* n calls of add_player
RECURSIVE Joined(_)
Joined(n) == IF n = 0 THEN <<>> ELSE add_player(Joined(n - 1), n > 1, n - 1)

\* every queued message has been sent
Flushed(ps) == Tuple([i \in 1..Len(ps) |-> [ps[i] EXCEPT !.buffer = <<>>]])

\* the players from position i on receive VERSION and answer "OK Alice"
RECURSIVE Handshakes(_, _)
Handshakes(ps, i) ==
    IF i > Len(ps) THEN ps
    ELSE Handshakes(MsgVerWait(StateVerCheck(ps, i), i, <<"OK", "Alice">>),
                    i + 1)

\* n players in START_WAIT
Seated(n) == Flushed(Handshakes(Joined(n), 1))

\* the MASTER has sent START_GAME: n players in BEGIN_SYNC
Started(n, cs) ==
    HandleStates(handle_message(Seated(n), 1, <<"START_GAME", cs>>,
                                "PLAYER_CONN", "0").players, 1, "GAME")

\* the players from position i on answer READY
RECURSIVE Readied(_, _)
Readied(ps, i) ==
    IF i > Len(ps) THEN ps
    ELSE Readied(handle_message(ps, i, <<"READY">>, "GAME", "x").players, i + 1)

\* the rest of the state while n players of one session are at the table
Running(n, cs, stage) ==
    /\ sockets = 0..(n - 1)
    /\ have_master = TRUE
    /\ seq_number = n
    /\ game_state = "GAME"
    /\ card_set = cs
    /\ session_id = 0
    /\ res_active = FALSE
    /\ pc = stage
    /\ rflows = <<>>
    /\ cli = [pc |-> "idle", arg |-> ""]
    /\ last = Did("init")
    /\ hist = <<>>

(***************************************************************************)
(* SpecNext: next_player applied again and again to a list whose players   *)
(* are valid or not, from any player of the list, from a player that has   *)
(* left it, and from None.                                                 *)
(***************************************************************************)
InitNext ==
    /\ \E n \in 0..MaxRoster, live \in SUBSET (1..MaxRoster) :
          /\ live \subseteq 1..n
          /\ players = Tuple([i \in 1..n |->
                          [Seated(n)[i] EXCEPT !.valid = (i \in live)]])
          /\ Running(n, "x", "next")
    /\ current_player \in {NoPlayer} \cup 0..MaxRoster
    /\ cards = <<>>
    /\ env = Budget(0, 0, 0, 0)

NextPlayer ==
    /\ pc = "next"
    /\ Len(hist) < 2 * Len(players) + 1
    /\ current_player' = next_player(players, current_player)
    /\ hist' = Append(hist, next_player(players, current_player))
    /\ last' = Did("next")
    /\ UNCHANGED <<players, sockets, have_master, seq_number, game_state,
                   card_set, cards, session_id, res_active, pc, rflows, cli,
                   env>>

SpecNext == InitNext /\ [][NextPlayer]_vars

(***************************************************************************)
(* SpecDeal: the BEGIN_SYNC synchronisation point of 1 to 7 players, for   *)
(* the card set "x" without a configuration entry (50 cards) and for "s".  *)
(***************************************************************************)
InitDeal ==
    /\ \E n \in 1..MaxPlayers, cs \in CardSets :
          /\ players = Started(n, cs)
          /\ Running(n, cs, "global")
    /\ current_player = NoPlayer
    /\ cards = <<>>
    /\ env = Budget(0, 0, 0, 0)

Idle == Work \/ Select \/ PlayerEvents \/ GlobalOperations \/ Check

SpecDeal == InitDeal /\ [][Idle]_vars

(***************************************************************************)
(* SpecScore: the VOTE_SYNC synchronisation point of 2 to ScorePlayers     *)
(* players, for every leader, every card played and every vote.            *)
(***************************************************************************)
ScoreCards == {0, 1, 2}

\* the table of n players after the deal of the card set "x"
DealtTable ==
    [n \in 1..MaxPlayers |->
        begin_game(Started(n, "x"), Identity(CardNum("x")))]

InitScore ==
    /\ \E n \in 2..ScorePlayers :
       \E leader \in 1..n, played \in [1..n -> ScoreCards],
          voted \in [1..n -> ScoreCards] :
          LET dealt == DealtTable[n] IN
          /\ voted[leader] = 0
          /\ players = Tuple([i \in 1..n |->
                [dealt.players[i] EXCEPT
                    !.state = "VOTE_SYNC",
                    !.has_turn = (i = leader),
                    !.current_card = played[i],
                    !.selected_card = IF i = leader THEN LeaderVote
                                      ELSE voted[i]]])
          /\ current_player = leader - 1
          /\ cards = dealt.cards
          /\ Running(n, "x", "global")
    /\ env = Budget(0, 0, 0, 0)

SpecScore == InitScore /\ [][Idle]_vars

(***************************************************************************)
(* SpecGame: a game of 2 to GamePlayers players from the BEGIN_SYNC         *)
(* synchronisation point on, with every line a client may send.            *)
(***************************************************************************)
InitGame ==
    /\ \E n \in 2..GamePlayers :
          /\ players = Started(n, "x")
          /\ Running(n, "x", "global")
    /\ current_player = NoPlayer
    /\ cards = <<>>
    /\ env = Budget(0, GameMsgs, GameFails, 0)

SpecGame == InitGame /\ [][Session]_vars

(***************************************************************************)
(* SpecAdmit: more connections than seats.                                 *)
(***************************************************************************)
InitAdmit ==
    /\ Constructed
    /\ env = Budget(AdmitConns, AdmitMsgs, 0, 0)

SpecAdmit == InitAdmit /\ [][Server]_vars

(***************************************************************************)
(* SpecFailed: the start of a game of 2 to FailPlayers players, in the      *)
(* iteration in which the MASTER's START_GAME is handled; the write of the  *)
(* last PLAYER_LIST to one of the players has failed in the select of that  *)
(* iteration, so its connection is broken and it is not yet swept.          *)
(***************************************************************************)
InitFailed ==
    /\ \E n \in 2..FailPlayers, broken \in 1..FailPlayers :
          /\ broken <= n
          /\ players = [Started(n, "x") EXCEPT ![broken].conn = FALSE]
          /\ Running(n, "x", "global")
    /\ current_player = NoPlayer
    /\ cards = <<>>
    /\ env = Budget(0, FailMsgs, 0, 0)

SpecFailed == InitFailed /\ [][Session]_vars

(***************************************************************************)
(* SpecRecover: the start of a game of 2 to RecPlayers players whose       *)
(* sockets may fail.                                                       *)
(***************************************************************************)
InitRecover ==
    /\ \E n \in 2..RecPlayers :
          /\ players = Started(n, "x")
          /\ Running(n, "x", "global")
    /\ current_player = NoPlayer
    /\ cards = <<>>
    /\ env = Budget(0, RecMsgs, RecFails, 0)

SpecRecover == InitRecover /\ [][Session]_vars

(***************************************************************************)
(* SpecLive: the main loop and the console, with the server thread always  *)
(* scheduled again: no step of GameServer.main blocks (select returns      *)
(* after 0.5 s, the lock is held by comm_end for a bounded time only).     *)
(***************************************************************************)
InitLive ==
    /\ Constructed
    /\ env = Budget(LiveConns, LiveMsgs, 0, LiveCmds)

SpecLive == InitLive /\ [][Next]_vars /\ WF_vars(Server)

(***************************************************************************)
(* SpecTurn: the SYNC_NEXT_TURN synchronisation point of 1 to 7 players,   *)
(* after the deal of the card set "x" and up to TurnRounds rounds in which *)
(* every player played the first card of its hand.                         *)
(***************************************************************************)
\* every valid player has played the first card of its hand (card 0 when it
\* holds none) and has sent NEXT_TURN
AtNextTurn(ps) ==
    Tuple([i \in 1..Len(ps) |->
        IF ps[i].valid
        THEN [ps[i] EXCEPT !.state = "SYNC_NEXT_TURN",
                           !.has_turn = (i = 1),
                           !.current_card = IF ps[i].cards = <<>> THEN 0
                                            ELSE Head(ps[i].cards)]
        ELSE ps[i]])

\* the table after r rounds
RECURSIVE Played(_, _)
Played(n, r) ==
    IF r = 0 THEN DealtTable[n]
    ELSE LET t == Played(n, r - 1)
             out == SyncNext(AtNextTurn(t.players), 0, "GAME", t.cards)
         IN [players |-> Flushed(out.players), cards |-> out.cards]

InitTurn ==
    /\ \E n \in 1..MaxPlayers, r \in 0..TurnRounds :
          /\ players = AtNextTurn(Played(n, r).players)
          /\ cards = Played(n, r).cards
          /\ Running(n, "x", "global")
    /\ current_player = 0
    /\ env = Budget(0, 0, 0, 0)

SpecTurn == InitTurn /\ [][Idle]_vars

(***************************************************************************)
(* SpecRound: a game of 2 to RoundPlayers players from the VOTE_SYNC point  *)
(* of a round on, for every storyteller and every vote for a card on the    *)
(* table, with every line a client may send: the scores are counted, the    *)
(* next round is played and the scores are counted again.                   *)
(***************************************************************************)
InitRound ==
    /\ \E n \in 2..RoundPlayers :
       \E leader \in 1..n, voted \in [1..n -> 1..n] :
          LET dealt == DealtTable[n] IN
          /\ voted[leader] = leader
          /\ players = Tuple([i \in 1..n |->
                [dealt.players[i] EXCEPT
                    !.state = "VOTE_SYNC",
                    !.has_turn = (i = leader),
                    !.current_card = Head(dealt.players[i].cards),
                    !.selected_card =
                        IF i = leader THEN LeaderVote
                        ELSE Head(dealt.players[voted[i]].cards)]])
          /\ current_player = leader - 1
          /\ cards = dealt.cards
          /\ Running(n, "x", "global")
    /\ env = Budget(0, RoundMsgs, 0, 0)

SpecRound == InitRound /\ [][Session]_vars

(***************************************************************************)
(* SpecCards: the cards of a game of 1 to 7 players: the deal at BEGIN_SYNC *)
(* of the card sets "x" and "s", the SYNC_NEXT_TURN point after 1 to        *)
(* TurnRounds rounds, and the console command `end`.                        *)
(***************************************************************************)
InitCards ==
    /\ \/ \E n \in 1..MaxPlayers, cs \in CardSets :
             /\ players = Started(n, cs)
             /\ Running(n, cs, "global")
             /\ current_player = NoPlayer
             /\ cards = <<>>
       \/ \E n \in 1..MaxPlayers, r \in 1..TurnRounds :
             /\ players = AtNextTurn(Played(n, r).players)
             /\ cards = Played(n, r).cards
             /\ Running(n, "x", "global")
             /\ current_player = 0
    /\ env = Budget(0, 0, 0, CardCmds)

SpecCards == InitCards /\ [][Idle \/ CliEnd \/ CliEndCards]_vars


(***************************************************************************)
(* The properties checked.                                                 *)
(***************************************************************************)
Masters == {i \in 1..Len(players) : players[i].status = "MASTER"}

\* C1: within a session the roster holds at most one player whose role is
\* MASTER, and a MASTER is the first player added in the session (the one
\* numbered 0): no later joiner is created as MASTER or becomes one, also
\* after the MASTER was invalidated or removed.
C1_OneMaster ==
    /\ Cardinality(Masters) <= 1
    /\ \A i \in Masters : players[i].number = 0

\* a player was accepted while the invalidated MASTER was still in the list
C1_Witness ==
    /\ last.op = "accept"
    /\ Len(players) >= 2
    /\ players[1].status = "MASTER" /\ ~players[1].valid
    /\ players[Len(players)].status = "PLAYER"
    /\ players[Len(players)].state = "VER_CHECK"


\* the numbers of the valid players of the list
ValidNumbers == {players[i].number : i \in ValidIdx(players)}

\* b is the first valid player met going round the list from the place
\* after a
NextInJoinOrder(a, b) ==
    LET ia == IndexOf(players, a)
        ib == IndexOf(players, b)
    IN IF ia < ib
       THEN \A k \in (ia + 1)..(ib - 1) : ~players[k].valid
       ELSE /\ \A k \in (ia + 1)..Len(players) : ~players[k].valid
            /\ \A k \in 1..(ib - 1) : ~players[k].valid

\* C2: next_player never returns an invalid player; it returns none exactly
\* when the list holds no valid player; and applied again and again to its
\* own result it goes round the valid players in join order, visiting each
\* of them once before any of them is returned again.
C2_NextPlayer ==
    /\ \A k \in 1..Len(hist) :
          /\ hist[k] = NoPlayer <=> ValidNumbers = {}
          /\ hist[k] # NoPlayer => hist[k] \in ValidNumbers
    /\ \A k \in 1..(Len(hist) - 1) :
          hist[k] # NoPlayer => NextInJoinOrder(hist[k], hist[k + 1])
    /\ Len(hist) >= Cardinality(ValidNumbers) =>
          {hist[k] : k \in 1..Cardinality(ValidNumbers)} = ValidNumbers

\* the rotation has gone twice round a list of four with two valid players
C2_Witness ==
    /\ Len(players) >= 4
    /\ Cardinality(ValidNumbers) = 2
    /\ ~players[1].valid
    /\ Len(hist) >= 4
    /\ hist[1] # hist[2] /\ hist[3] = hist[1] /\ hist[4] = hist[2]


\* the place of the storyteller, the other valid players, and the votes of
\* those for the card c
Teller == IndexOf(players, current_player)
Voters == ValidIdx(players) \ {Teller}
VotesFor(c) == Cardinality({j \in Voters : players[j].selected_card = c})
TrueCard == players[Teller].current_card
Correct == VotesFor(TrueCard)
Guessed(i) == i \in Voters /\ players[i].selected_card = TrueCard

\* the step of the VOTE_SYNC synchronisation point, with a valid storyteller
ScoreStep ==
    /\ pc = "global" /\ pc' = "check"
    /\ Teller \in ValidIdx(players)
    /\ \A i \in ValidIdx(players) : players[i].state = "VOTE_SYNC"

Gained(i) == players'[i].score - players[i].score

\* C3: scoring at VOTE_SYNC when all N-1 other valid players voted for the
\* storyteller's card: each of them gains exactly 3, the storyteller gains
\* nothing, and nobody gains anything for the votes its own card received,
\* whatever cards were played and voted.
C3_AllCorrect ==
    [][ScoreStep /\ Correct = len(players) - 1 =>
          \A i \in ValidIdx(players) :
             Gained(i) = IF i = Teller THEN 0 ELSE 3]_vars

\* four players were scored, all three votes correct, and a player whose own
\* card equals the storyteller's (three votes "for" it) has 3 points
C3_Witness ==
    /\ last.op = "VOTE_SYNC"
    /\ len(players) = 4 /\ Len(players) = 4
    /\ Correct = 3
    /\ players[Teller].score = 0
    /\ \A i \in Voters : players[i].score = 3
    /\ \E i \in Voters : players[i].current_card = TrueCard

\* what the rule of the not-all-correct case gives the player at place i
RuleGain(i) ==
    VotesFor(players[i].current_card)
    + (IF Correct > 0 /\ (i = Teller \/ Guessed(i)) THEN 3 ELSE 0)

\* C4 (as amended): scoring at VOTE_SYNC when fewer than N-1 votes are
\* correct: every player gains the number of votes of the others for its
\* own card; if some vote is correct the storyteller and every correct
\* guesser gain 3 more; if none is, nobody gains the 3 points and the
\* storyteller gains nothing.  With N = 4 and one correct guess the
\* storyteller gains 4, the correct guesser 3 plus the votes cast for its own
\* card, and every other player the votes cast for its card.
C4_NotAllCorrect ==
    [][ScoreStep /\ Correct < len(players) - 1 =>
          /\ \A i \in ValidIdx(players) : Gained(i) = RuleGain(i)
          /\ Correct = 0 =>
                /\ Gained(Teller) = 0
                /\ \A i \in Voters :
                      Gained(i) = VotesFor(players[i].current_card)
          /\ len(players) = 4 /\ Correct = 1 =>
                /\ Gained(Teller) = 4
                /\ \A i \in Voters :
                      Gained(i) = VotesFor(players[i].current_card)
                                  + (IF Guessed(i) THEN 3 ELSE 0)]_vars

\* four players were scored, one vote correct, and the correct guesser, whose
\* own card drew a vote, has 4 points
C4_Witness ==
    /\ last.op = "VOTE_SYNC"
    /\ len(players) = 4 /\ Len(players) = 4
    /\ Correct = 1
    /\ players[Teller].score = 4
    /\ \E i \in Voters :
          /\ Guessed(i)
          /\ VotesFor(players[i].current_card) = 1
          /\ players[i].score = 4

\* C4 as stated: the rule of the not-all-correct case, and with N = 4 and
\* one correct guess the storyteller gains 4, the correct guesser 3, and
\* each decoy owner the number of votes cast for its card.
C4_AsStated ==
    [][ScoreStep /\ Correct < len(players) - 1 =>
          /\ \A i \in ValidIdx(players) : Gained(i) = RuleGain(i)
          /\ len(players) = 4 /\ Correct = 1 =>
                /\ Gained(Teller) = 4
                /\ \A i \in Voters :
                      Gained(i) = IF Guessed(i) THEN 3
                                  ELSE VotesFor(players[i].current_card)]_vars


\* the cards in the hands of the valid players and in the deck
Hand(i) == players[i].cards
UsableDeck ==
    Range(cards) \cup UNION {Range(Hand(i)) : i \in ValidIdx(players)}

\* C5: after the BEGIN_SYNC synchronisation point for a set of 50 cards the
\* usable deck has 48 cards with 4 players, 27 with 5, 24 with 6 and 50 with
\* any other number, every valid player holds exactly 6 cards, and no card
\* is in two hands.
C5_Deal ==
    last.op = "BEGIN_SYNC" /\ card_set = "x" =>
       /\ Cardinality(UsableDeck) =
             (CASE len(players) = 4 -> 48
                [] len(players) = 5 -> 27
                [] len(players) = 6 -> 24
                [] OTHER -> 50)
       /\ \A i \in ValidIdx(players) :
             /\ Len(Hand(i)) = 6
             /\ Cardinality(Range(Hand(i))) = 6
       /\ \A i, j \in ValidIdx(players) :
             i # j => Range(Hand(i)) \cap Range(Hand(j)) = {}


\* the step of global_operations, and the players at the moment it tests
\* for a synchronisation point (after the rewind of lines 838-841)
BarrierStep == pc = "global" /\ pc' = "check"
AtBarrier == Recovery(players, current_player)
Common(S) ==
    /\ ValidIdx(AtBarrier) # {}
    /\ \A i \in ValidIdx(AtBarrier) : AtBarrier[i].state = S

\* the state the action of the synchronisation point S puts the players in
After(S) ==
    CASE S = "BEGIN_SYNC" -> "READY_WAIT"
      [] S = "TURN_SYNC" -> "WAIT_ASSOC"
      [] S = "SELF_SYNC" -> "WAIT_VOTE"
      [] S = "VOTE_SYNC" -> "WAIT_NEXT_TURN"
      [] S = "SYNC_NEXT_TURN" -> "TURN_SYNC"

\* C6: in an iteration the action of the synchronisation point S is performed
\* only if there is a valid player and every valid player is in state S at
\* that moment; when the valid players are in two different states, in a
\* state that is no synchronisation point, or there is none, the step
\* changes no player, nor the deck, the storyteller or the phase.  Players
\* that are invalid and not yet swept are not counted: when all valid
\* players are in S the action is performed (each valid player is moved on,
\* or, at the end of the game, invalidated).
C6_Barrier ==
    [][BarrierStep =>
          /\ (\A S \in SyncStates : ~Common(S)) =>
                /\ players' = AtBarrier
                /\ cards' = cards
                /\ current_player' = current_player
                /\ game_state' = game_state
          /\ \A S \in SyncStates :
                Common(S) =>
                   \A i \in 1..Len(players) :
                      IF AtBarrier[i].valid
                      THEN \/ players'[i].state = After(S)
                           \/ /\ S = "SYNC_NEXT_TURN"
                              /\ ~players'[i].valid
                      ELSE players'[i] = AtBarrier[i]]_vars

\* the TURN_SYNC point was passed by the valid players while an invalidated
\* player, left in another state, was still in the list
C6_Witness ==
    /\ pc = "check" /\ last.op = "TURN_SYNC"
    /\ \E i, j \in 1..Len(players) :
          /\ ~players[i].valid /\ players[i].state = "READY_WAIT"
          /\ players[j].valid /\ players[j].state = "WAIT_ASSOC"


\* the step that handles a line received from a player, the place of that
\* player in the list, and the line
ReceiveStep ==
    /\ pc = "input"
    /\ rflows # <<>> /\ Head(rflows) # Listen /\ rflows' = Tail(rflows)
    /\ last'.op = "message"
Sender == IndexOf(players, last'.who)
Line == last'.line

WellFormedTurn(line) ==
    Len(line) >= 3 /\ line[1] = "TURN" /\ isnumeric(line[2])

AcceptStep ==
    /\ pc = "input"
    /\ rflows # <<>> /\ Head(rflows) = Listen /\ rflows' = Tail(rflows)

ValidCount == Cardinality({i \in 1..Len(players) : players[i].valid})

\* C8: an accepted connection is added to the list exactly when the phase is
\* PLAYER_CONN and fewer than 7 players are valid; otherwise it is closed
\* and the list, the lookup of sockets, the sequence counter and the MASTER
\* flag are unchanged.  The number of valid players never exceeds 7.
C8_Admission ==
    [][/\ AcceptStep =>
             IF game_state = "PLAYER_CONN" /\ ValidCount < 7
             THEN /\ Len(players') = Len(players) + 1
                  /\ SubSeq(players', 1, Len(players)) = players
                  /\ players'[Len(players')].valid
                  /\ players'[Len(players')].number = seq_number
                  /\ sockets' = sockets \cup {seq_number}
                  /\ seq_number' = seq_number + 1
                  /\ last'.op = "accept"
             ELSE /\ players' = players
                  /\ sockets' = sockets
                  /\ seq_number' = seq_number
                  /\ have_master' = have_master
                  /\ last'.op = "refuse"
       /\ ValidCount <= 7 /\ ValidCount' <= 7]_vars

\* an eighth connection was refused while seven valid players were seated
\* and the phase was PLAYER_CONN
C8_Witness ==
    /\ last.op = "refuse"
    /\ game_state = "PLAYER_CONN"
    /\ ValidCount = 7 /\ Len(players) = 7
    /\ seq_number = 7


\* the step that runs handle_state of every valid player
StateStep == pc = "input" /\ rflows = <<>> /\ pc' = "global"

\* the message m is a PLAYER_LIST digest with an entry number;name
ListsPlayer(m, number, name) ==
    /\ m.cmd = "PLAYER_LIST"
    /\ \E k \in 1..Len(m.nums) : m.nums[k] = number /\ m.strs[k] = name

\* C9: handshake.  A player in VER_CHECK is sent VERSION, with its number
\* and role, and moves to VER_WAIT by handle_state alone; when the line
\* "OK <name>" of a player in VER_WAIT is handled, the name is stored, the
\* player becomes eligible for broadcasts and moves to START_WAIT, and the
\* PLAYER_LIST digest broadcast in that step holds its number and name and
\* is queued to it.
C9_Handshake ==
    [][/\ StateStep =>
             \A i \in ValidIdx(players) :
                players[i].state = "VER_CHECK" =>
                   /\ players'[i].state = "VER_WAIT"
                   /\ Len(players'[i].buffer) = Len(players[i].buffer) + 1
                   /\ LET m == players'[i].buffer[Len(players'[i].buffer)]
                      IN /\ m.cmd = "VERSION"
                         /\ m.nums = <<players[i].number>>
                         /\ m.strs[1] = players[i].status
       /\ /\ ReceiveStep
          /\ players[Sender].valid /\ players[Sender].state = "VER_WAIT"
          /\ Len(Line) = 2 /\ Line[1] = "OK"
          =>
          /\ players'[Sender].name = Line[2]
          /\ players'[Sender].get_broadcast
          /\ players'[Sender].state = "START_WAIT"
          /\ players'[Sender].valid
          /\ Len(players'[Sender].buffer) = Len(players[Sender].buffer) + 1
          /\ ListsPlayer(players'[Sender].buffer[Len(players'[Sender].buffer)],
                         players[Sender].number, Line[2])]_vars

\* the second player has answered "OK Alice": it is in START_WAIT and the
\* last message queued to it is a digest of two players with its own entry
C9_Witness ==
    /\ pc = "input" /\ last.op = "message" /\ last.line = <<"OK", "Alice">>
    /\ \E i \in 1..Len(players) :
          /\ players[i].number = last.who /\ players[i].status = "PLAYER"
          /\ players[i].state = "START_WAIT" /\ players[i].name = "Alice"
          /\ players[i].get_broadcast
          /\ players[i].buffer # <<>>
          /\ LET m == players[i].buffer[Len(players[i].buffer)]
             IN ListsPlayer(m, players[i].number, "Alice") /\ Len(m.nums) = 2


\* the list, the lookup and the phase after one sweep and after a second
\* sweep that follows it at once
SweptOnce == check(players, sockets, game_state)
SweptTwice == check(SweptOnce.players, SweptOnce.sockets, SweptOnce.state)

\* C10: whenever the sweep is about to run, whatever the list holds, a
\* second sweep right after it, with no player invalidated in between,
\* changes nothing: it removes no player, changes neither the lookup nor the
\* phase, and queues no broadcast.
C10_SweepIdempotent == pc = "check" => SweptTwice = SweptOnce


\* the step of global_operations that finds the storyteller failing verify()
RecoveryStep ==
    /\ BarrierStep
    /\ current_player # NoPlayer
    /\ ~VerifyCurrent(players, current_player)

\* the storyteller is a player of the list whose valid flag is set
StorytellerValid ==
    /\ IndexOf(players, current_player) # 0
    /\ players[IndexOf(players, current_player)].valid

\* some valid player waits for the clue of the storyteller
AwaitingClue ==
    \E i \in ValidIdx(players) : players[i].state = "WAIT_ASSOC"

Numbered(ps, num) == {q \in Range(ps) : q.number = num}

\* the step changes, of the player at position i, the fields valid and conn
\* at most, and leaves the other players, the phase and the card set alone
OnlyInvalidates(i) ==
    /\ Len(players') = Len(players)
    /\ \A j \in 1..Len(players) \ {i} : players'[j] = players[j]
    /\ ~players'[i].valid
    /\ players'[i] = [players[i] EXCEPT !.valid = FALSE,
                                        !.conn = players'[i].conn]
    /\ game_state' = game_state
    /\ card_set' = card_set

\* C12: a valid player in one of the states BEGIN_SYNC, TURN_SYNC, SELF_SYNC,
\* VOTE_SYNC, SYNC_NEXT_TURN keeps that state in every step that is not the
\* step of global_operations: no received line and no handle_state moves it.
\* A line received from a player in such a state invalidates that player
\* and changes nothing else.
C12_BarrierOnly ==
    [][/\ ~BarrierStep =>
             \A p \in Range(players) :
                (p.valid /\ p.state \in SyncStates) =>
                   \A q \in Numbered(players', p.number) : q.state = p.state
       /\ (ReceiveStep /\ players[Sender].state \in SyncStates)
             => OnlyInvalidates(Sender)]_vars

\* a player that had answered READY and was in TURN_SYNC sent READY again:
\* it is invalid and still in TURN_SYNC
C12_Witness ==
    /\ pc = "input" /\ last.op = "message" /\ last.line = <<"READY">>
    /\ \E i \in 1..Len(players) :
          /\ players[i].number = last.who
          /\ ~players[i].valid /\ players[i].state = "TURN_SYNC"


\* the step that handles a line read from the socket of a player, whatever
\* becomes of it; the place of that player in the list
LineStep ==
    /\ pc = "input"
    /\ rflows # <<>> /\ Head(rflows) # Listen /\ rflows' = Tail(rflows)
From == IndexOf(players, Head(rflows))

\* a card number as the protocol writes it: decimal digits
CardToken(tok) == tok \in NumTokens

\* the line is the input that the state and the role of player p expect
ValidInput(p, line) ==
    CASE p.state = "VER_WAIT" -> Len(line) = 2 /\ line[1] = "OK"
      [] p.state = "START_WAIT" ->
            p.status = "MASTER" /\ Len(line) = 2 /\ line[1] = "START_GAME"
      [] p.state = "READY_WAIT" -> line = <<"READY">>
      [] p.state = "WAIT_ASSOC" ->
            /\ p.has_turn
            /\ Len(line) >= 3 /\ line[1] = "TURN" /\ CardToken(line[2])
      [] p.state \in {"WAIT_SELF_CARD", "WAIT_VOTE"} ->
            /\ ~p.has_turn
            /\ Len(line) = 2 /\ line[1] = "CARD" /\ CardToken(line[2])
      [] p.state = "WAIT_NEXT_TURN" -> line = <<"NEXT_TURN">>
      [] OTHER -> FALSE

\* C13: whenever a line is received that is not the valid input of the state
\* and role of its sender (wrong keyword, wrong number of words, a card that
\* is no number, a line of a player without the turn in WAIT_ASSOC, CARD from
\* the storyteller, any line in a synchronisation state), the valid flag of
\* the sender is cleared; unless the line is a malformed clue of the
\* storyteller, the other players and the phase are unchanged.
C13_Violation ==
    [][(LineStep /\ ~ValidInput(players[From], last'.line)) =>
          /\ ~players'[From].valid
          /\ ~(players[From].state = "WAIT_ASSOC" /\ players[From].has_turn) =>
                /\ Len(players') = Len(players)
                /\ \A j \in 1..Len(players) \ {From} : players'[j] = players[j]
                /\ game_state' = game_state]_vars


\* the line is START_GAME <card_set>
IsStartGame(line) == Len(line) = 2 /\ line[1] = "START_GAME"

\* C14: game start by a client.  A received line changes the phase from
\* PLAYER_CONN to GAME only when its sender is the MASTER, in START_WAIT,
\* and the line is START_GAME <card_set>; that line sets the phase to GAME,
\* stores the card set and moves the sender to BEGIN_SYNC.  Any line of a
\* player that is not the MASTER in START_WAIT, and any other line of the
\* MASTER there, invalidates the sender and changes neither the phase nor
\* the card set.
C14_ClientStart ==
    [][LineStep =>
          /\ (game_state = "PLAYER_CONN" /\ game_state' = "GAME") =>
                /\ players[From].status = "MASTER"
                /\ players[From].state = "START_WAIT"
                /\ IsStartGame(last'.line)
          /\ players[From].state = "START_WAIT" =>
                IF players[From].status = "MASTER" /\ IsStartGame(last'.line)
                THEN /\ game_state' = "GAME"
                     /\ card_set' = last'.line[2]
                     /\ players'[From].state = "BEGIN_SYNC"
                     /\ players'[From].valid
                ELSE /\ ~players'[From].valid
                     /\ players'[From].state = "START_WAIT"
                     /\ game_state' = game_state
                     /\ card_set' = card_set]_vars

\* the MASTER has sent START_GAME x while another player was seated: the
\* phase is GAME, the card set is "x" and the MASTER is in BEGIN_SYNC
C14_Witness ==
    /\ pc = "input" /\ last.op = "message" /\ last.line = <<"START_GAME", "x">>
    /\ game_state = "GAME" /\ card_set = "x"
    /\ Len(players) = 2
    /\ \E i \in 1..Len(players) :
          /\ players[i].number = last.who /\ players[i].status = "MASTER"
          /\ players[i].valid /\ players[i].state = "BEGIN_SYNC"


\* the states of a player that has not completed the handshake
Handshaking == {"VER_CHECK", "VER_WAIT"}

\* C15: late joiners.  While the phase is GAME a player that is in VER_CHECK
\* or VER_WAIT never moves on to START_WAIT, BEGIN_SYNC or any later state,
\* and the handle_state step invalidates it and moves every valid player in
\* START_WAIT to BEGIN_SYNC, whether the phase was set by the START_GAME of
\* the MASTER or by the console at any point of the iteration.
C15_LateJoiner ==
    [][/\ game_state = "GAME" =>
             \A p \in Range(players) :
                p.state \in Handshaking =>
                   \A q \in Numbered(players', p.number) :
                      q.state \in Handshaking
       /\ (StateStep /\ game_state = "GAME") =>
             \A i \in ValidIdx(players) :
                /\ players[i].state \in Handshaking => ~players'[i].valid
                /\ players[i].state = "START_WAIT"
                      => players'[i].state = "BEGIN_SYNC"]_vars


\* the step of global_operations at the SYNC_NEXT_TURN point
NextTurnStep == BarrierStep /\ Common("SYNC_NEXT_TURN")

\* one card each is dealt; the place of a valid player among the valid ones
Deals == Len(cards) >= Cardinality(ValidIdx(players))
Rank(i) == Cardinality({j \in ValidIdx(players) : j <= i})

\* the hand of the player at position i after the step: the played card is
\* dropped and, if cards are dealt, one is taken from the deck
NewHand(i) ==
    LET kept == RemoveFirst(players[i].cards, players[i].current_card)
    IN IF Deals THEN Append(kept, cards[Rank(i)]) ELSE kept

\* C16: at the SYNC_NEXT_TURN point the card each valid player played is
\* removed from its hand, and one card each is dealt exactly when the deck
\* holds at least as many cards as there are valid players.  Then, if the
\* hand of any valid player is empty, every player is invalidated (the game
\* ends); otherwise every valid player is sent CARDS with its hand and put
\* in TURN_SYNC.  No valid player with an empty hand is put in TURN_SYNC.
C16_NextTurn ==
    [][NextTurnStep =>
          /\ \A i \in ValidIdx(players) : players'[i].cards = NewHand(i)
          /\ cards' = IF Deals THEN Drop(cards, Cardinality(ValidIdx(players)))
                      ELSE cards
          /\ IF \E i \in ValidIdx(players) : NewHand(i) = <<>>
             THEN \A i \in 1..Len(players) : ~players'[i].valid
             ELSE \A i \in ValidIdx(players) :
                     /\ players'[i].valid
                     /\ players'[i].state = "TURN_SYNC"
                     /\ players'[i].buffer # <<>>
                     /\ LET m == players'[i].buffer[Len(players'[i].buffer)]
                        IN m.cmd = "CARDS" /\ m.nums = NewHand(i)
          /\ \A i \in ValidIdx(players') :
                players'[i].state = "TURN_SYNC" => players'[i].cards # <<>>]_vars

\* the server thread is in the session loop
InSession == pc \in {"work", "select", "input", "global", "check"}

\* the phase is GAME and no valid player is in the list
EmptyGame == game_state = "GAME" /\ ValidIdx(players) = {} /\ InSession

\* C17: a game started with an empty roster (the console command start with
\* no player connected).  global_operations finds no synchronisation state
\* and leaves the phase alone: the phase stays GAME, not ERROR.  The test at
\* the head of the session loop ends the session, and unless the console
\* requests shutdown the next session is prepared: the loop does not wait
\* forever.
C17_EmptyStart ==
    /\ [][/\ (BarrierStep /\ ValidIdx(players) = {}) =>
                game_state' = game_state
          /\ (pc = "work" /\ pc' # pc /\ EmptyGame) =>
                pc' = "stop" /\ game_state' = "GAME"]_vars
    /\ \A k \in 0..(MaxSession - 1) :
          (EmptyGame /\ session_id = k)
             ~> \/ last.op = "prepare" /\ session_id = k + 1
                \/ game_state = "SHUTDOWN"

\* the console started the game before any player had connected: the session
\* loop has ended with the phase GAME
C17_Witness ==
    /\ pc = "stop" /\ last.op = "work"
    /\ game_state = "GAME"
    /\ players = <<>> /\ seq_number = 0 /\ session_id = 0

\* C17 as stated: the step of global_operations that runs with the phase
\* GAME and no valid player sets the phase to ERROR, and the session ends.
C17_AsStated ==
    /\ [][(BarrierStep /\ EmptyGame) => game_state' = "ERROR"]_vars
    /\ \A k \in 0..(MaxSession - 1) :
          (EmptyGame /\ session_id = k)
             ~> \/ last.op = "prepare" /\ session_id = k + 1
                \/ game_state = "SHUTDOWN"

(***************************************************************************)
(* C18: the MASTER removed by the sweep.                                   *)
(***************************************************************************)
SweepStep == pc = "check" /\ pc' = "work"

\* the position of the player the sweep removes, 0 when it removes none
Swept == FirstDead(players)

MasterSwept == Swept # 0 /\ players[Swept].status = "MASTER"

\* the sweep has removed the MASTER in PLAYER_CONN, and the loop has not yet
\* evaluated its exit tests
MasterLost == pc = "work" /\ last.op = "master_lost"

\* C18: a sweep that removes the MASTER while the phase is PLAYER_CONN sets
\* the phase to ERROR; the next evaluation of the exit tests of the session
\* loop then leaves the loop, PlayerList.stop closes every remaining player,
\* and the outer loop prepares a new session with the phase PLAYER_CONN and
\* an empty list; a sweep that removes the MASTER while the phase is GAME, or
\* a player that is not the MASTER, leaves the phase as it was.
C18_MasterRemoved ==
    [][/\ (SweepStep /\ MasterSwept /\ game_state = "PLAYER_CONN")
             => game_state' = "ERROR"
       /\ (SweepStep /\ Swept # 0 /\ (~MasterSwept \/ game_state = "GAME"))
             => game_state' = game_state
       /\ (MasterLost /\ pc' # pc) => pc' = "stop"
       /\ (pc = "stop" /\ pc' # pc)
             => pc' = "while" /\ players' = <<>> /\ sockets' = {}
       /\ (pc = "while" /\ pc' # pc /\ game_state # "SHUTDOWN")
             => pc' = "prepare"
       /\ (pc = "prepare" /\ pc' # pc)
             => game_state' = "PLAYER_CONN" /\ players' = <<>>]_vars

(***************************************************************************)
(* C19: shutdown.                                                          *)
(***************************************************************************)
\* comm_stop has run: the console has set the phase to SHUTDOWN and its
\* thread has ended
ShutdownRequested == cli.pc = "dead"

\* C19: once the console has requested shutdown, no step of the server
\* thread sets the phase to another value and no session is prepared, and
\* GameServer.main eventually leaves its outer loop, wherever in the
\* iteration the request arrives.
C19_Shutdown ==
    /\ [][ShutdownRequested
             => /\ game_state' = "SHUTDOWN"
                /\ ~(pc = "prepare" /\ pc' = "work")]_vars
    /\ ShutdownRequested ~> pc = "done"

(***************************************************************************)
(* C20: the lock of the player list and the console.                       *)
(***************************************************************************)
\* a step of the console thread past the reading of a command
ConsoleStep == cli' # cli

\* C20: while the server thread is inside the locked section of an
\* iteration (after acquire on line 724, before release on line 746), no
\* step of the console changes the player list, the deck, the phase or the
\* card set.
C20_LockDiscipline ==
    [][(Locked /\ ConsoleStep)
          => UNCHANGED <<players, cards, game_state, card_set>>]_vars


(***************************************************************************)
(* C21: the condition of the session loop.                                 *)
(***************************************************************************)
\* the exit tests of the session loop are evaluated
LoopHeadStep == pc = "work" /\ pc' # pc

\* the phase is PLAYER_CONN or GAME and, in GAME, a valid player exists
LoopCondition ==
    /\ game_state \in {"PLAYER_CONN", "GAME"}
    /\ game_state = "GAME" => ValidIdx(players) # {}

\* an iteration has run to its end: the sweep is done and the exit tests
\* come next
IterationDone == pc = "work" /\ last.op \in {"check", "removed", "master_lost"}

\* C21: the session loop runs another iteration exactly when the phase is
\* PLAYER_CONN or GAME and, in GAME, at least one valid player exists, and
\* otherwise ends the session; an iteration begun in PLAYER_CONN with no
\* valid player runs to its end (select returns, nothing blocks), so the
\* loop goes on with an empty list for as long as the phase is PLAYER_CONN.
C21_LoopCondition ==
    /\ [][LoopHeadStep => /\ LoopCondition => pc' = "select"
                          /\ ~LoopCondition => pc' = "stop"]_vars
    /\ (pc = "select" /\ game_state = "PLAYER_CONN" /\ ValidIdx(players) = {})
          ~> IterationDone

\* an iteration in PLAYER_CONN has ended with the list still empty
C21_Witness ==
    /\ IterationDone
    /\ game_state = "PLAYER_CONN" /\ players = <<>>


(***************************************************************************)
(* C22: an invalidated player until it is swept.                           *)
(***************************************************************************)
\* the numbers of the players in the list
Numbers(ps) == {ps[i].number : i \in 1..Len(ps)}

\* the invalidated players that are still in the list
Cancelled == {p \in Range(players) : ~p.valid}

TurnStep == BarrierStep /\ Common("TURN_SYNC")

\* the valid player that follows number c in join order, going round: the
\* players are numbered in the order in which they joined
Successor(c) ==
    LET later == {v \in ValidNumbers : v > c}
        Least(S) == CHOOSE v \in S : \A w \in S : v <= w
    IN IF later # {} THEN Least(later) ELSE Least(ValidNumbers)

\* C23: at the TURN_SYNC point the storyteller becomes the valid player that
\* follows the previous storyteller in join order (going round, invalid
\* players skipped); that player and no other valid player has has_turn
\* set, every valid player is put in WAIT_ASSOC, and TURN with the number of
\* the storyteller is queued for every valid player that receives
\* broadcasts.  (With the same valid players round after round, each of them
\* is then storyteller once in as many rounds as there are valid players.)
C23_TurnSync ==
    [][TurnStep =>
          /\ current_player' = Successor(current_player)
          /\ \A i \in 1..Len(players) :
                AtBarrier[i].valid =>
                   /\ players'[i].valid
                   /\ players'[i].has_turn
                         = (players'[i].number = current_player')
                   /\ players'[i].state = "WAIT_ASSOC"
                   /\ AtBarrier[i].get_broadcast =>
                         players'[i].buffer
                            = Append(AtBarrier[i].buffer,
                                     Msg("TURN", <<current_player'>>, <<>>, <<>>))]_vars


(***************************************************************************)
(* C24: the SELF_SYNC point.                                               *)
(***************************************************************************)
SelfStep == BarrierStep /\ Common("SELF_SYNC")

\* the cards on the table: the current_card of each valid player
OnTable ==
    Tuple([k \in 1..Len(ValidSeq(players)) |-> ValidSeq(players)[k].current_card])

\* the sequences a and b hold the same values the same number of times
IsPermutation(a, b) ==
    /\ Len(a) = Len(b)
    /\ \A x \in Range(a) \cup Range(b) :
          Cardinality({k \in 1..Len(a) : a[k] = x})
             = Cardinality({k \in 1..Len(b) : b[k] = x})

\* the player was told to play a card in this round and has played it
HasPlayed(p) ==
    p.valid /\ (p.state = "SELF_SYNC" \/ (p.state = "WAIT_SELF_CARD" /\ p.has_turn))

\* C24: at the SELF_SYNC point every valid player, the storyteller included,
\* is put in WAIT_VOTE, and one VOTE message is queued for every valid
\* player that receives broadcasts; its list is a permutation of the
\* current_card of the valid players, one entry for each of them.  Each of
\* these cards was given in the round: a player comes to SELF_SYNC by its
\* own CARD line, which sets current_card, or as the storyteller, whose
\* current_card was set by its own TURN line when the round began, and the
\* card is not changed while the player waits at the point.
C24_SelfSync ==
    [][/\ SelfStep =>
             \E order \in [1..Len(OnTable) -> Range(OnTable)] :
              LET ballot == Tuple(order) IN
                /\ IsPermutation(ballot, OnTable)
                /\ NoCard \notin Range(OnTable)
                /\ \A i \in 1..Len(players) :
                      IF players[i].valid
                      THEN /\ players'[i].valid
                           /\ players'[i].state = "WAIT_VOTE"
                           /\ players'[i].buffer
                                 = IF players[i].get_broadcast
                                   THEN Append(players[i].buffer,
                                               Msg("VOTE", ballot, <<>>, <<>>))
                                   ELSE players[i].buffer
                      ELSE players'[i] = players[i]
       /\ \A p \in Range(players) : \A q \in Numbered(players', p.number) :
             /\ (HasPlayed(p) /\ HasPlayed(q))
                   => q.current_card = p.current_card
             /\ (~HasPlayed(p) /\ HasPlayed(q))
                   => /\ ReceiveStep /\ players[Sender].number = p.number
                      /\ Len(Line) >= 2
                      /\ Line[1] = (IF p.has_turn THEN "TURN" ELSE "CARD")
                      /\ q.current_card = int(Line[2])]_vars

\* two players have played their cards and the ballot is queued for both
C24_Witness ==
    /\ pc = "check" /\ last.op = "SELF_SYNC"
    /\ Cardinality(ValidIdx(players)) >= 2
    /\ \A i \in ValidIdx(players) :
          /\ players[i].state = "WAIT_VOTE"
          /\ players[i].buffer # <<>>
          /\ players[i].buffer[Len(players[i].buffer)].cmd = "VOTE"


(***************************************************************************)
(* C25: WAIT_SELF_CARD and WAIT_VOTE.                                      *)
(***************************************************************************)
\* the state that follows WAIT_SELF_CARD, respectively WAIT_VOTE
Advanced(st) == IF st = "WAIT_SELF_CARD" THEN "SELF_SYNC" ELSE "VOTE_SYNC"

\* the valid players that wait for a card or a vote
Waiting ==
    {p \in Range(players) :
        p.valid /\ p.state \in {"WAIT_SELF_CARD", "WAIT_VOTE"}}

\* the line is CARD followed by a number in decimal digits
IsCard(line) == Len(line) >= 2 /\ line[1] = "CARD" /\ CardToken(line[2])

\* what C25 says of the lines and of handle_state, for the step at hand
WaitingRules ==
    \A p \in Waiting : \A q \in Numbered(players', p.number) :
       /\ (StateStep /\ p.has_turn)
             => q = [p EXCEPT !.state = Advanced(p.state),
                              !.buffer = q.buffer]
       /\ (StateStep /\ ~p.has_turn) => q.state = p.state /\ q.valid
       /\ (ReceiveStep /\ players[Sender].number = p.number)
             => IF ~p.has_turn /\ IsCard(Line)
                THEN /\ q.valid /\ q.state = Advanced(p.state)
                     /\ p.state = "WAIT_SELF_CARD"
                           => q.current_card = int(Line[2])
                     /\ p.state = "WAIT_VOTE"
                           => q.selected_card = int(Line[2])
                ELSE ~q.valid /\ q.state = p.state
       /\ (q.valid /\ q.state # p.state)
             => \/ StateStep /\ p.has_turn
                \/ ReceiveStep /\ players[Sender].number = p.number
                \/ BarrierStep

PhaseStep == game_state' # game_state

\* GameServer.prepare runs: the next session begins
PrepareStep == pc = "prepare" /\ pc' = "work"

\* C26: the phase changes only from PLAYER_CONN to GAME, from PLAYER_CONN to
\* ERROR, or from any value to SHUTDOWN; once it is ERROR or SHUTDOWN no step
\* of the server thread or of the console sets it to GAME, and it becomes
\* PLAYER_CONN again only in GameServer.prepare.  Every interleaving of the
\* console thread with the event loop is a behaviour of Spec.
C26_PhaseTransitions ==
    [][PhaseStep =>
          \/ game_state = "PLAYER_CONN" /\ game_state' \in {"GAME", "ERROR"}
          \/ game_state' = "SHUTDOWN"
          \/ PrepareStep /\ game_state' = "PLAYER_CONN"]_vars



(***************************************************************************)
(* C27: the storyteller at the end of an iteration.                        *)
(***************************************************************************)
\* the sweep of the iteration has run and the lock is released
IterationEnd == pc = "work" /\ last.op \in {"check", "removed", "master_lost"}

\* the game has been dealt: BEGIN_SYNC named a storyteller
Dealt == game_state = "GAME" /\ current_player # NoPlayer

\* the valid players that have the turn
TurnHolders == {i \in ValidIdx(players) : players[i].has_turn}

\* C27: at the end of every iteration of the event loop after the deal, when
\* a valid player exists, the storyteller is a valid player of the list, at
\* most one valid player has the turn, and a valid player that has the turn
\* is the storyteller.
C27_Storyteller ==
    (IterationEnd /\ Dealt /\ ValidIdx(players) # {}) =>
       /\ StorytellerValid
       /\ Cardinality(TurnHolders) <= 1
       /\ \A i \in TurnHolders : players[i].number = current_player



(***************************************************************************)
(* C28: the cards of the deck and of the hands.                            *)
(***************************************************************************)
\* the deck and the hand of every player of the list, valid or not
Piles == <<cards>> \o Tuple([i \in 1..Len(players) |-> players[i].cards])

\* the card ids in the deck and in the hands
Held == UNION {Range(Piles[k]) : k \in 1..Len(Piles)}

\* no card id is twice in one pile or in two piles
OncePerId ==
    /\ \A k \in 1..Len(Piles) : Cardinality(Range(Piles[k])) = Len(Piles[k])
    /\ \A k, l \in 1..Len(Piles) :
          k # l => Range(Piles[k]) \cap Range(Piles[l]) = {}

\* the step of global_operations that deals: begin_game runs
DealStep == BarrierStep /\ Common("BEGIN_SYNC")

\* C28: each card id is at most once in the deck and the hands of all the
\* players taken together.  The deal puts in the deck and the hands only ids
\* of the shuffled deck of the card set; any other step adds no id to the
\* deck or to the deck and the hands together, so a played card removed at
\* SYNC_NEXT_TURN does not come back, and a card that enters a hand leaves
\* the deck in the same step.
C28_Conservation ==
    /\ []OncePerId
    /\ [][/\ DealStep => Held' \subseteq 0..(CardNum(card_set) - 1)
          /\ ~DealStep =>
                /\ Held' \subseteq Held
                /\ Range(cards') \subseteq Range(cards)
                /\ \A i \in 1..Len(players) :
                      \A q \in Numbered(players', players[i].number) :
                         (Range(q.cards) \ Range(players[i].cards))
                            \subseteq (Range(cards) \ Range(cards'))]_vars

\* SYNC_NEXT_TURN has run: a player has dropped the card it played and drawn
\* one, and cards are left in the deck
C28_Witness ==
    /\ pc = "check" /\ last.op = "SYNC_NEXT_TURN"
    /\ cards # <<>>
    /\ \E i \in ValidIdx(players) :
          /\ Len(players[i].cards) = HandSize
          /\ players[i].current_card \notin Range(players[i].cards)
          /\ players[i].state = "TURN_SYNC"



(***************************************************************************)
(* C29: the scores.                                                        *)
(***************************************************************************)
\* the step of global_operations at the VOTE_SYNC point, and the one at the
\* TURN_SYNC point, which names the storyteller of the next round
VoteStep == BarrierStep /\ Common("VOTE_SYNC")
RoundStep == BarrierStep /\ Common("TURN_SYNC")

\* how far a player is in its round
Stage(st) ==
    CASE st = "WAIT_ASSOC" -> 1
      [] st = "WAIT_SELF_CARD" -> 2
      [] st = "SELF_SYNC" -> 3
      [] st = "WAIT_VOTE" -> 4
      [] st = "VOTE_SYNC" -> 5
      [] st = "WAIT_NEXT_TURN" -> 6
      [] st = "SYNC_NEXT_TURN" -> 7
      [] st = "TURN_SYNC" -> 8
      [] OTHER -> 0

\* what a step does to the score and the state of the player p, which is the
\* player q after it
ScoreRules ==
    \A p \in Range(players) : \A q \in Numbered(players', p.number) :
       /\ q.score >= p.score
       /\ q.score # p.score => VoteStep /\ p.valid
       /\ q.score - p.score <= 3 + (len(players) - 1)
       /\ (VoteStep /\ q.valid) => q.state = "WAIT_NEXT_TURN"
       /\ (~RoundStep /\ q.valid) => Stage(q.state) >= Stage(p.state)

\* C29: a score is never negative and never decreases; it changes only in
\* the step of global_operations at the VOTE_SYNC point, by at most
\* 3 + (N - 1) for N valid players.  That step runs at most once per round:
\* it leaves every valid player in WAIT_NEXT_TURN, and until the TURN_SYNC
\* point of the next round no valid player goes back to an earlier state of
\* the round.  No message handler, no call of handle_state, no sweep and no
\* console command changes a score.
C29_ScoreFrame ==
    /\ [](\A i \in 1..Len(players) : players[i].score >= 0)
    /\ [][ScoreRules]_vars

\* the scores have been counted in two rounds: the guesser of the first round
\* gained points, told the story of the second, and the guesser of the
\* second gained points
C29_Witness ==
    /\ pc = "check" /\ last.op = "VOTE_SYNC"
    /\ Cardinality(ValidIdx(players)) = 2
    /\ \A i \in ValidIdx(players) :
          players[i].score > 0 /\ players[i].state = "WAIT_NEXT_TURN"

====
